---------------------------- MODULE Spec2Model ----------------------------
(***************************************************************************)
(* A model of src/main.py: the collector of street-level crime records     *)
(* from data.police.uk, one request per (LSOA, month).                     *)
(*                                                                         *)
(* main() is modelled as a sequence of steps, one per call it makes:       *)
(* find_lsoas, generate_months, construct_url, the collection loop over    *)
(* make_request (the ratelimit decorator, session.get with the mounted     *)
(* Retry adapter, the status handling), format_data and aggregate_stats.   *)
(* Python strings are TLA+ strings, lists are sequences, dicts are         *)
(* functions.  The clock counts ticks, TicksPerSecond to the second: what  *)
(* happens between two ticks happens at one instant.  The libraries main() *)
(* calls (ratelimit, urllib3's Retry, requests, shapely 2 over GEOS,       *)
(* polars) are modelled by what the calls made here do.                    *)
(***************************************************************************)
EXTENDS Integers, Sequences, FiniteSets, Bags, TLC

VARIABLES
    pc,             \* position in main(): "lsoas", "months", "urls",
                    \* "simplify" (get_coords never returns), "loop", "get",
                    \* "sleep" (the adapter sleeps before a re-send),
                    \* "collected", "formatted", "done", "raised"
    exc,            \* the exception that left main() uncaught, or "none"
    polygons,       \* the LOCATIONS folder: area name -> ring of the geojson file
    archived,       \* the remote API: how many of the first months are archived (404)
    start_year,     \* arguments of generate_months
    end_year,
    months,         \* its result
    location_names, \* result of find_lsoas
    location_urls,  \* result of construct_url: <<name, url>> pairs
    coord_calls,    \* log of the get_coords calls made: <<name, result>>
    idx,            \* number of work items of the loop already collected
    data,           \* the list built by the loop: one {lsoa: crimes} per item
    statuses,       \* log: final HTTP status of each collected item
    since_reset,    \* ratelimit: clock() - last_reset in ticks, capped at a period
    num_calls,      \* ratelimit: calls counted in the current period
    sent,           \* log: GETs sent less than a second ago, by age in ticks
                    \* (sent[1]: at this instant)
    sleep_left,     \* ticks left of the time.sleep the adapter is in
    attempts,       \* GETs sent so far by the session.get call under way, or
                    \* by the one that raised
    last_status,    \* status of the response the raised exception is about
                    \* (0: none)
    crimes_df,      \* result of format_data
    crime_stats_df  \* result of aggregate_stats

vars == <<pc, exc, polygons, archived, start_year, end_year, months,
          location_names, location_urls, coord_calls, idx, data, statuses,
          since_reset, num_calls, sent, sleep_left, attempts, last_status,
          crimes_df, crime_stats_df>>

--------------------------------------------------------------------------
(* Bounds of the model. *)

\* areas in an input of construct_url and of the collection
MaxAreas == 2
\* files in the LOCATIONS folder when main() runs
MaxFiles == 1
\* months the remote API may have archived
MaxArchived == 2
\* years offered to generate_months: FirstYear .. FirstYear + YearSpan
YearSpan == 7
\* reports in an input of format_data
MaxReports == 2
\* crimes in one report of an input of format_data
MaxCrimes == 2
\* months in an input of construct_url
MaxDates == 2
\* ticks of the clock in one second
TicksPerSecond == 2

(* Program constants. *)

\* @limits(calls=15, period=1): the period, in seconds
Calls == 15
Period == 1
\* Retry(total=3, ...)
RetryTotal == 3
\* while len(formatted_coords) > 300
MaxCoordsLen == 300
\* generate_months(2022, 2025) in main
MainStartYear == 2022
MainEndYear == 2025
\* first year offered to generate_months by the model
FirstYear == 2018

STREETLEVEL_BASE_URL == "https://data.police.uk/api/crimes-street/all-crime"

\* Retry(status_forcelist=[429, 500])
status_forcelist == {429, 500}

\* Retry.RETRY_AFTER_STATUS_CODES
RETRY_AFTER_STATUS_CODES == {413, 429, 503}

--------------------------------------------------------------------------
(* Python values. *)

None == [none |-> TRUE]

Min(a, b) == IF a < b THEN a ELSE b
Max(a, b) == IF a > b THEN a ELSE b
Abs(a) == IF a < 0 THEN -a ELSE a

RECURSIVE Pow(_, _)
Pow(b, e) == IF e = 0 THEN 1 ELSE b * Pow(b, e - 1)

\* Op(v), with v evaluated once
Apply(Op(_), v) == CHOOSE r \in {Op(x) : x \in {v}} : TRUE
Apply2(Op(_, _), v, w) == CHOOSE r \in {Op(x[1], x[2]) : x \in {<<v, w>>}} : TRUE

RECURSIVE SumSeq(_)
SumSeq(s) == IF s = <<>> THEN 0 ELSE Head(s) + SumSeq(Tail(s))

Digit(d) ==
    CASE d = 0 -> "0" [] d = 1 -> "1" [] d = 2 -> "2" [] d = 3 -> "3"
      [] d = 4 -> "4" [] d = 5 -> "5" [] d = 6 -> "6" [] d = 7 -> "7"
      [] d = 8 -> "8" [] d = 9 -> "9"

RECURSIVE NatStr(_)
NatStr(n) == IF n < 10 THEN Digit(n) ELSE NatStr(n \div 10) \o Digit(n % 10)

\* str(i) of a Python int
IntStr(i) == IF i < 0 THEN "-" \o NatStr(-i) ELSE NatStr(i)

\* s.rjust(width, fill)
RECURSIVE Rjust(_, _, _)
Rjust(s, width, fill) ==
    IF Len(s) >= width THEN s ELSE Rjust(fill \o s, width, fill)

--------------------------------------------------------------------------
(* generate_months *)

\* range(a, b) as a sequence
Range(a, b) == [i \in 1..Max(b - a, 0) |-> a + i - 1]

\* str(year) + "-" + str(month).rjust(2, "0")
FormatMonth(year, month) == IntStr(year) \o "-" \o Rjust(IntStr(month), 2, "0")

\* product(xs, ys) of itertools: the pairs, the first component varying slowest
Product(xs, ys) ==
    [k \in 1..(Len(xs) * Len(ys)) |->
        <<xs[((k - 1) \div Len(ys)) + 1], ys[((k - 1) % Len(ys)) + 1]>>]

generate_months(sy, ey) ==
    LET params == Product(Range(sy, ey), Range(1, 13))
    IN  [k \in 1..Len(params) |-> FormatMonth(params[k][1], params[k][2])]

--------------------------------------------------------------------------
(* Natural numbers of any size: sequences of base-2^15 digits, the least   *)
(* significant first, with no zero at the top; zero is the empty sequence. *)

BigBase == 32768

RECURSIVE BigOf(_)
BigOf(n) == IF n = 0 THEN <<>> ELSE <<n % BigBase>> \o BigOf(n \div BigBase)

BigDigit(x, i) == IF i <= Len(x) THEN x[i] ELSE 0

RECURSIVE BigTrim(_)
BigTrim(x) ==
    IF x = <<>> THEN x
    ELSE IF x[Len(x)] = 0 THEN BigTrim(SubSeq(x, 1, Len(x) - 1))
    ELSE x

RECURSIVE BigAddCarry(_, _, _)
BigAddCarry(x, y, carry) ==
    IF x = <<>> /\ y = <<>> THEN (IF carry = 0 THEN <<>> ELSE <<carry>>)
    ELSE LET t == BigDigit(x, 1) + BigDigit(y, 1) + carry
         IN  <<t % BigBase>>
                \o BigAddCarry(IF x = <<>> THEN <<>> ELSE Tail(x),
                               IF y = <<>> THEN <<>> ELSE Tail(y),
                               t \div BigBase)

BigAdd(x, y) == BigAddCarry(x, y, 0)

\* the digits of x - y - borrow, for x >= y + borrow
RECURSIVE BigSubBorrow(_, _, _)
BigSubBorrow(x, y, borrow) ==
    IF x = <<>> THEN <<>>
    ELSE LET t == x[1] - BigDigit(y, 1) - borrow
         IN  <<t % BigBase>>
                \o BigSubBorrow(Tail(x), IF y = <<>> THEN <<>> ELSE Tail(y),
                                IF t < 0 THEN 1 ELSE 0)

BigSub(x, y) == BigTrim(BigSubBorrow(x, y, 0))

\* x * m + carry, for 0 < m < 2^15
RECURSIVE BigScale(_, _, _)
BigScale(x, m, carry) ==
    IF x = <<>> THEN (IF carry = 0 THEN <<>> ELSE <<carry>>)
    ELSE LET t == Head(x) * m + carry
         IN  <<t % BigBase>> \o BigScale(Tail(x), m, t \div BigBase)

RECURSIVE BigMulDigits(_, _)
BigMulDigits(x, y) ==
    IF y = <<>> THEN <<>>
    ELSE BigAdd(IF Head(y) = 0 THEN <<>> ELSE BigScale(x, Head(y), 0),
                <<0>> \o BigMulDigits(x, Tail(y)))

BigMul(x, y) == IF x = <<>> \/ y = <<>> THEN <<>> ELSE BigTrim(BigMulDigits(x, y))

\* -1, 0, 1 as x is below, equal to, above y
RECURSIVE BigCmpAt(_, _, _)
BigCmpAt(x, y, i) ==
    IF i = 0 THEN 0
    ELSE IF x[i] < y[i] THEN -1
    ELSE IF x[i] > y[i] THEN 1
    ELSE BigCmpAt(x, y, i - 1)

BigCmp(x, y) ==
    IF Len(x) < Len(y) THEN -1
    ELSE IF Len(x) > Len(y) THEN 1
    ELSE BigCmpAt(x, y, Len(x))

\* the number of binary digits of x
BitLen(x) ==
    IF x = <<>> THEN 0
    ELSE 15 * (Len(x) - 1)
            + (CHOOSE k \in 1..15 : 2^(k - 1) <= x[Len(x)] /\ x[Len(x)] < 2^k)

\* x * 2^t
Shl(x, t) ==
    IF x = <<>> THEN x
    ELSE [i \in 1..(t \div 15) |-> 0]
            \o (IF t % 15 = 0 THEN x ELSE BigScale(x, 2^(t % 15), 0))

\* x \div 2^t
Shr(x, t) ==
    IF Len(x) <= t \div 15 THEN <<>>
    ELSE BigTrim([i \in 1..(Len(x) - (t \div 15)) |->
                     (x[i + (t \div 15)] \div 2^(t % 15))
                        + (BigDigit(x, i + (t \div 15) + 1) % 2^(t % 15))
                            * 2^(15 - (t % 15))] \o <<>>)

\* x is not a multiple of 2^t
Sticky(x, t) ==
    \/ \E i \in 1..Min(t \div 15, Len(x)) : x[i] # 0
    \/ BigDigit(x, (t \div 15) + 1) % 2^(t % 15) # 0

\* the largest digit q <= guess with q * y <= r
RECURSIVE QuotientDigit(_, _, _)
QuotientDigit(r, y, guess) ==
    IF guess = 0 THEN 0
    ELSE IF BigCmp(BigScale(y, guess, 0), r) <= 0 THEN guess
    ELSE QuotientDigit(r, y, guess - 1)

\* the digit of r \div y guessed from the top digits, for r < y * 2^15 and
\* the top digit of y no less than 2^14: never too small, at most 2 too big
GuessDigit(r, y) ==
    Min(BigBase - 1,
        (BigDigit(r, Len(y) + 1) * BigBase + BigDigit(r, Len(y)))
            \div y[Len(y)])

\* long division: the digits i and below of x are still to bring down, r
\* is what is left of the digits above them; [q, r] with q of i digits
RECURSIVE DivDigits(_, _, _, _)
DivTake(x, y, i, r, digit) ==
    Apply(LAMBDA rest : [q |-> Append(rest.q, digit), r |-> rest.r],
          DivDigits(x, y, i - 1,
                    IF digit = 0 THEN r ELSE BigSub(r, BigScale(y, digit, 0))))

DivDigits(x, y, i, r) ==
    IF i = 0 THEN [q |-> <<>>, r |-> r]
    ELSE Apply(LAMBDA left :
                   DivTake(x, y, i, left, QuotientDigit(left, y, GuessDigit(left, y))),
               BigTrim(<<x[i]>> \o r))

\* the division of x by y, the top digit of y no less than 2^14: the
\* digits of x above the lowest Len(x) - Len(y) + 1 are below y
DivShifted(x, y) ==
    IF Len(x) < Len(y) THEN [q |-> <<>>, r |-> x]
    ELSE DivDigits(x, y, Len(x) - Len(y) + 1,
                   SubSeq(x, Len(x) - Len(y) + 2, Len(x)))

\* [q, r] with x = q * y + r and r < y, for y # 0
BigDivMod(x, y) ==
    Apply2(LAMBDA k, res : [q |-> BigTrim(res.q), r |-> Shr(res.r, k)],
           15 - (BitLen(y) - 15 * (Len(y) - 1)),
           Apply2(DivShifted,
                  Shl(x, 15 - (BitLen(y) - 15 * (Len(y) - 1))),
                  Shl(y, 15 - (BitLen(y) - 15 * (Len(y) - 1)))))

\* the largest q with q * q <= n, by Newton's iteration from q >= it
RECURSIVE BigSqrtFrom(_, _)
BigSqrtNext(n, q, next) == IF BigCmp(next, q) >= 0 THEN q ELSE BigSqrtFrom(n, next)

BigSqrtFrom(n, q) == BigSqrtNext(n, q, Shr(BigAdd(q, BigDivMod(n, q).q), 1))

--------------------------------------------------------------------------
(* IEEE 754 double arithmetic, as Python and GEOS do it: a number is       *)
(* [s, m, e], standing for s * m * 2^e with s in {-1, 0, 1}.  The Ex       *)
(* operators are exact; a double has m of exactly 53 binary digits, or is  *)
(* zero, and every F operator rounds the exact result to the nearest       *)
(* double, ties to the even m.  The magnitudes of a ring of coordinates    *)
(* stay far from overflow and underflow, which are left out, and so is the *)
(* sign of zero, which no comparison of the geometry reads.  Every         *)
(* operation rounds on its own: no product is fused with a sum.            *)

FZero == [s |-> 0, m |-> <<>>, e |-> 0]

ExNeg(x) == [x EXCEPT !.s = -@]

ExMul(x, y) ==
    IF x.s = 0 \/ y.s = 0 THEN FZero
    ELSE [s |-> x.s * y.s, m |-> BigMul(x.m, y.m), e |-> x.e + y.e]

ExDiff(sx, mx, sy, my, e, c) ==
    IF c = 0 THEN FZero
    ELSE IF c > 0 THEN [s |-> sx, m |-> BigSub(mx, my), e |-> e]
    ELSE [s |-> sy, m |-> BigSub(my, mx), e |-> e]

ExAddAligned(sx, mx, sy, my, e) ==
    IF sx = sy THEN [s |-> sx, m |-> BigAdd(mx, my), e |-> e]
    ELSE ExDiff(sx, mx, sy, my, e, BigCmp(mx, my))

ExAdd(x, y) ==
    IF x.s = 0 THEN y
    ELSE IF y.s = 0 THEN x
    ELSE ExAddAligned(x.s, Shl(x.m, x.e - Min(x.e, y.e)),
                      y.s, Shl(y.m, y.e - Min(x.e, y.e)), Min(x.e, y.e))

ExSub(x, y) == ExAdd(x, ExNeg(y))

\* -1, 0, 1 as x is below, equal to, above y
FCmp(x, y) == ExSub(x, y).s

FCarry(s, q, e) ==
    IF BitLen(q) > 53 THEN [s |-> s, m |-> Shr(q, 1), e |-> e + 1]
    ELSE [s |-> s, m |-> q, e |-> e]

FRoundUp(s, q, e, up) ==
    IF up THEN FCarry(s, BigAdd(q, <<1>>), e) ELSE [s |-> s, m |-> q, e |-> e]

\* g holds the 53 digits of the result and the digit below them
FRoundGuard(s, g, e, sticky) ==
    FRoundUp(s, Shr(g, 1), e,
             g[1] % 2 = 1 /\ (sticky \/ (g[1] \div 2) % 2 = 1))

FRoundLen(s, m, e, sticky, len) ==
    IF len <= 53
    THEN [s |-> s, m |-> Shl(m, 53 - len), e |-> e - (53 - len)]
    ELSE FRoundGuard(s, Shr(m, len - 54), e + len - 53,
                     sticky \/ Sticky(m, len - 54))

\* the double nearest s * m * 2^e, or s * (m + a fraction) * 2^e when sticky
FRound(s, m, e, sticky) ==
    IF m = <<>> THEN FZero ELSE FRoundLen(s, m, e, sticky, BitLen(m))

FRnd(x) == FRound(x.s, x.m, x.e, FALSE)

\* x + y, x - y, x * y for doubles
FAdd(x, y) == Apply2(LAMBDA a, b : FRnd(ExAdd(a, b)), x, y)
FSub(x, y) == Apply2(LAMBDA a, b : FRnd(ExSub(a, b)), x, y)
FMul(x, y) == Apply2(LAMBDA a, b : FRnd(ExMul(a, b)), x, y)

FAbs(x) == [x EXCEPT !.s = IF @ = 0 THEN 0 ELSE 1]

\* the double of the integer n
FromInt(n) == FRound(IF n < 0 THEN -1 ELSE 1, BigOf(Abs(n)), 0, FALSE)

FDivRound(s, e, res) == FRound(s, res.q, e, res.r # <<>>)

\* x / y for doubles, y # 0
FDiv(x, y) ==
    Apply2(LAMBDA a, b :
               IF a.s = 0 THEN FZero
               ELSE FDivRound(a.s * b.s, a.e - b.e - 55,
                              BigDivMod(Shl(a.m, 55), b.m)),
           x, y)

FSqrtRound(e, n, q) == FRound(1, q, e, BigMul(q, q) # n)

\* the square root of n, 2^110 <= n < 2^112, from a first guess above it
\* made of the top 22 binary digits
FSqrtOf(e, n) ==
    FSqrtRound(e, n,
        BigSqrtFrom(n,
            Shl(BigOf(1 + CHOOSE g \in 1024..2047 :
                          /\ g * g <= n[8] * BigBase + n[7]
                          /\ n[8] * BigBase + n[7] < (g + 1) * (g + 1)), 45)))

\* sqrt(x) for a double x >= 0
FSqrt(x) ==
    Apply(LAMBDA a :
              IF a.s = 0 THEN FZero
              ELSE FSqrtOf(((a.e - (a.e % 2)) \div 2) - 29,
                           Shl(a.m, 58 + (a.e % 2))),
          x)

--------------------------------------------------------------------------
(* format_coordinates and get_coords.  A geojson ring is a sequence of     *)
(* <<long, lat>> pairs, each coordinate an integer number of millionths of *)
(* a degree, standing for the float json.load reads from that decimal.  A  *)
(* rounded coordinate is the float nearest mag * 1e-5, with its sign       *)
(* (Python keeps -0.0 apart from 0.0).  The geometry is done on those     *)
(* floats, in the double arithmetic of GEOS.                               *)

\* v / 10^6 lies between 2^(g-6) and 2^(g-5): 15625 * 2^g <= v < 15625 * 2^(g+1)
RECURSIVE BinaryExponent(_, _)
BinaryExponent(v, g) ==
    IF v >= 31250 THEN BinaryExponent(v \div 2, g + 1)
    ELSE IF v < 15625 THEN BinaryExponent(v * 2, g - 1)
    ELSE g

\* r * 2^e modulo 15625
RECURSIVE ShiftMod(_, _)
ShiftMod(r, e) == IF e = 0 THEN r ELSE ShiftMod((2 * r) % 15625, e - 1)

\* where the float nearest v / 10^6 lies relative to that decimal: -1 below,
\* 0 on it, 1 above (the sign of the rounding of v * 2^(52-g) / 15625 to a
\* 53-bit integer).  v > 0.
FloatError(v) ==
    LET rem == ShiftMod(v % 15625, 52 - BinaryExponent(v, 0))
    IN  IF rem = 0 THEN 0 ELSE IF 2 * rem < 15625 THEN -1 ELSE 1

\* round(x, 5) of the float x nearest v / 10^6: correctly rounded from the
\* binary value of x, a tie that x holds exactly going to the even neighbour
Round5(v) ==
    LET a == Abs(v)
        q == a \div 10
        r == a % 10
        up == \/ r > 5
              \/ r = 5 /\ FloatError(a) = 1
              \/ r = 5 /\ FloatError(a) = 0 /\ q % 2 = 1
    IN  [neg |-> v < 0, mag |-> IF up THEN q + 1 ELSE q]

\* the number of 1e-5 degrees a rounded coordinate stands for
Val(x) == IF x.neg THEN -x.mag ELSE x.mag

\* the digits of fp / 10^width after the point, trailing zeros dropped
RECURSIVE FracStr(_, _)
FracStr(fp, width) ==
    IF fp = 0 THEN ""
    ELSE Digit(fp \div Pow(10, width - 1))
            \o FracStr(fp % Pow(10, width - 1), width - 1)

\* str(x) of the rounded coordinate x
FloatStr(x) ==
    LET a == x.mag
        sign == IF x.neg THEN "-" ELSE ""
    IN  IF a # 0 /\ a < 10 THEN sign \o Digit(a) \o "e-05"
        ELSE IF a % 100000 = 0 THEN sign \o NatStr(a \div 100000) \o ".0"
        ELSE sign \o NatStr(a \div 100000) \o "." \o FracStr(a % 100000, 5)

\* sep.join(parts)
RECURSIVE Join(_, _)
Join(sep, parts) ==
    IF parts = <<>> THEN ""
    ELSE IF Len(parts) = 1 THEN parts[1]
    ELSE parts[1] \o sep \o Join(sep, Tail(parts))

\* two coordinate pairs at the same place (-0.0 equals 0.0)
SamePoint(p, q) == Val(p[1]) = Val(q[1]) /\ Val(p[2]) = Val(q[2])

\* Polygon(coords): shapely builds the linear ring, with a closing
\* coordinate added when the first and the last differ or when there are
\* only 3, and raises when that leaves fewer than 4; no coordinates give the
\* empty polygon.  exterior is the .exterior.coords of the polygon.
Polygon(coords) ==
    LET n == Len(coords)
        closing == n # 0 /\ (n = 3 \/ ~SamePoint(coords[1], coords[n]))
        exterior == IF closing THEN Append(coords, coords[1]) ELSE coords
    IN  IF n # 0 /\ Len(exterior) < 4
        THEN [raised |-> "ValueError", exterior |-> <<>>]
        ELSE [raised |-> "none", exterior |-> exterior]

format_coordinates(shape) ==
    Join(":", [i \in 1..Len(shape) |->
                  FloatStr(shape[i][1]) \o "," \o FloatStr(shape[i][2])])

\* the double round(x, 5) returns for the rounded coordinate x: the one
\* nearest mag / 10^5
Double(x) == FDiv(FromInt(Val(x)), FromInt(100000))

\* the coordinates of the ring as shapely hands them to GEOS
Doubles(ring) ==
    [i \in 1..Len(ring) |-> [c \in 1..2 |-> Double(ring[i][c])] \o <<>>]
      \o <<>>

\* tolerance = 0.000001
Tolerance0 == FDiv(FromInt(1), FromInt(1000000))

\* tolerance *= 1.25
NextTolerance(tolerance) == FMul(tolerance, FDiv(FromInt(5), FromInt(4)))

\* Coordinate::distance: sqrt(dx * dx + dy * dy)
DistanceOf(dx, dy) == FSqrt(FAdd(FMul(dx, dx), FMul(dy, dy)))

distance(p, q) == DistanceOf(FSub(p[1], q[1]), FSub(p[2], q[2]))

\* the end of Distance::pointToSegment, r being the place of the foot of p
\* on the line through A and B: the distance to the nearer end when the
\* foot is not between A and B, else the distance to the line
PerpendicularOrEnd(p, A, B, dx, dy, len2, r) ==
    IF r.s <= 0 \/ FCmp(r, FromInt(1)) >= 0
    THEN distance(p, IF r.s <= 0 THEN A ELSE B)
    ELSE FMul(FAbs(FDiv(FSub(FMul(FSub(A[2], p[2]), dx),
                             FMul(FSub(A[1], p[1]), dy)), len2)),
              FSqrt(len2))

\* r = ((p.x - A.x) * dx + (p.y - A.y) * dy) / len2; when A = B the code
\* returns the distance from p to A before it divides, which is the case
\* r <= 0
FootOnLine(p, A, B, dx, dy, len2) ==
    PerpendicularOrEnd(p, A, B, dx, dy, len2,
        IF A = B THEN FZero
        ELSE FDiv(FAdd(FMul(FSub(p[1], A[1]), dx),
                       FMul(FSub(p[2], A[2]), dy)), len2))

SegmentDeltas(p, A, B, dx, dy) ==
    FootOnLine(p, A, B, dx, dy, FAdd(FMul(dx, dx), FMul(dy, dy)))

\* Distance::pointToSegment of GEOS, in doubles, operation by operation:
\* the distance from p to the segment A-B
pointToSegment(p, A, B) ==
    SegmentDeltas(p, A, B, FSub(B[1], A[1]), FSub(B[2], A[2]))

\* d <= f for doubles that are not negative
FLeqPos(d, f) ==
    \/ d.s = 0
    \/ f.s # 0 /\ (d.e < f.e \/ (d.e = f.e /\ BigCmp(d.m, f.m) <= 0))

\* findFurthestPoint: of the points strictly between i and j, the first
\* that is furthest from the chord, and its distance.  d holds the distance
\* of point g at g; the places up to i are filled to make it a sequence and
\* are never read.
Furthest(pts, i, j) ==
    Apply(LAMBDA d :
              Apply(LAMBDA far :
                        Apply(LAMBDA f : [index |-> f, distance |-> d[f]],
                              CHOOSE f \in far : \A g \in far : f <= g),
                    {g \in (i + 1)..(j - 1) :
                        \A h \in (i + 1)..(j - 1) : FLeqPos(d[h], d[g])}),
          [g \in 1..(j - 1) |->
              IF g <= i THEN FZero ELSE pointToSegment(pts[g], pts[i], pts[j])]
            \o <<>>)

\* the orientation index of GEOS, which computes it so that its sign is
\* right: the sign of (b - a) x (c - a), exact, positive when a, b, c turn
\* left
Orientation(a, b, c) ==
    ExSub(ExMul(ExSub(b[1], a[1]), ExSub(c[2], a[2])),
          ExMul(ExSub(b[2], a[2]), ExSub(c[1], a[1]))).s

\* p, on the line through a and b, lies within the segment a-b and is
\* neither a nor b
Inside(p, a, b) ==
    /\ p # a /\ p # b
    /\ \A c \in 1..2 : FCmp(p[c], a[c]) * FCmp(p[c], b[c]) <= 0

\* the segments cross, or an end of one lies inside the other; o[1] and
\* o[2] are the sides of b0-b1 on which a0 and a1 lie, o[3] and o[4] those
\* of a0-a1 on which b0 and b1 lie
InteriorBySides(a0, a1, b0, b1, o) ==
    \/ o[1] * o[2] < 0 /\ o[3] * o[4] < 0
    \/ \E t \in {<<1, a0, b0, b1>>, <<2, a1, b0, b1>>,
                 <<3, b0, a0, a1>>, <<4, b1, a0, a1>>} :
          o[t[1]] = 0 /\ Inside(t[2], t[3], t[4])

\* hasInteriorIntersection: the segments a0-a1 and b0-b1 meet in a point
\* that is not an end of both
hasInteriorIntersection(a0, a1, b0, b1) ==
    InteriorBySides(a0, a1, b0, b1,
        [n \in 1..4 |->
            Apply(LAMBDA t : Orientation(t[1], t[2], t[3]),
                  << <<b0, b1, a0>>, <<b0, b1, a1>>,
                     <<a0, a1, b0>>, <<a0, a1, b1>> >>[n])] \o <<>>)

\* hasBadIntersection of the chord i-j: it meets a chord already put in the
\* result, or a segment of the ring outside the section i..j that no chord
\* has replaced yet.  st is the simplifier's state: keep, the indices put in
\* the result after the first; out, the chords put in; gone, the segments
\* (by their first index) taken out of the input.
hasBadIntersection(pts, i, j, st) ==
    \E c \in st.out \cup {<<s, s + 1>> : s \in {s \in 1..(Len(pts) - 1) :
                                  s \notin st.gone /\ ~(s >= i /\ s < j)}} :
        hasInteriorIntersection(pts[c[1]], pts[c[2]], pts[i], pts[j])

\* simplifySection of GEOS's TaggedLineStringSimplifier, behind
\* simplify(tolerance, preserve_topology=True): the section i..j becomes its
\* chord when the result can no longer fall below the 4 coordinates of a
\* ring, no point of the section is further than the tolerance from the
\* chord and the chord has no bad intersection; else it is split at the
\* furthest point.
RECURSIVE SimplifySection(_, _, _, _, _, _)
SimplifySection(pts, i, j, depth, st, tolerance) ==
    IF i + 1 = j THEN [st EXCEPT !.keep = Append(@, j)]
    ELSE Apply(LAMBDA f :
             LET resultSize == IF st.keep = <<>> THEN 0 ELSE Len(st.keep) + 1
                 valid ==
                     /\ ~(resultSize < 4 /\ depth + 2 < 4)
                     /\ FCmp(f.distance, tolerance) <= 0
                     /\ ~hasBadIntersection(pts, i, j, st)
             IN  IF valid
                 THEN [keep |-> Append(st.keep, j),
                       out |-> st.out \cup {<<i, j>>},
                       gone |-> st.gone \cup (i..(j - 1))]
                 ELSE Apply(LAMBDA left :
                                SimplifySection(pts, f.index, j, depth + 1,
                                                left, tolerance),
                            SimplifySection(pts, i, f.index, depth + 1, st,
                                            tolerance)),
             Furthest(pts, i, j))

\* area_polygon.simplify(tolerance, preserve_topology=True)
simplify(ring, tolerance) ==
    IF ring = <<>> THEN ring
    ELSE Apply(LAMBDA done :
                   [n \in 1..(Len(done.keep) + 1) |->
                       IF n = 1 THEN ring[1] ELSE ring[done.keep[n - 1]]],
               Apply(LAMBDA pts :
                         SimplifySection(pts, 1, Len(pts), 0,
                             [keep |-> <<>>, out |-> {}, gone |-> {}],
                             tolerance),
                     Doubles(ring)))

\* the tolerance is no less than twice the diagonal of the box around the
\* ring: no point is further than the tolerance from any chord, at this
\* tolerance and at every later one
Saturated(ring, tolerance) ==
    LET span(c) ==
            LET at == {Val(ring[n][c]) : n \in 1..Len(ring)}
                of(v) == FDiv(FromInt(v), FromInt(100000))
            IN  ExSub(of(CHOOSE x \in at : \A y \in at : y <= x),
                      of(CHOOSE x \in at : \A y \in at : x <= y))
        four == [s |-> 1, m |-> <<4>>, e |-> 0]
    IN  FCmp(ExMul(four, ExAdd(ExMul(span(1), span(1)),
                               ExMul(span(2), span(2)))),
             ExMul(tolerance, tolerance)) <= 0

\* while len(formatted_coords) > 300: simplify, format, tolerance *= 1.25.
\* The loop has no other exit: when a pass at a saturated tolerance gives
\* its input back, every later pass does, and the loop never ends.
\* LoopTest is the loop's condition, LoopBody its body.
RECURSIVE LoopTest(_, _, _)
LoopBody(area_polygon, simplified, tolerance) ==
    IF simplified = area_polygon /\ Saturated(area_polygon, tolerance)
    THEN [outcome |-> "loops", value |-> ""]
    ELSE LoopTest(simplified, format_coordinates(simplified),
                  NextTolerance(tolerance))

LoopTest(area_polygon, formatted_coords, tolerance) ==
    IF Len(formatted_coords) <= MaxCoordsLen
    THEN [outcome |-> "returned", value |-> formatted_coords]
    ELSE LoopBody(area_polygon, simplify(area_polygon, tolerance), tolerance)

SimplifyLoop(area_polygon) ==
    LoopTest(area_polygon, format_coordinates(area_polygon), Tolerance0)

\* get_coords on the ring read from the file: round and swap to (lat, long),
\* build the polygon, format, simplify until the string fits
get_coords(coords) ==
    Apply(LAMBDA area_polygon :
              IF area_polygon.raised # "none"
              THEN [outcome |-> area_polygon.raised, value |-> ""]
              ELSE SimplifyLoop(area_polygon.exterior),
          Polygon([i \in 1..Len(coords) |->
                      <<Round5(coords[i][2]), Round5(coords[i][1])>>]))

--------------------------------------------------------------------------
(* The geojson files the model offers, as <<long, lat>> in millionths of a *)
(* degree.                                                                 *)

RingTriangle ==
    << <<-2590000, 51450000>>, <<-2590012, 51450049>>,
       <<-2589958, 51450021>>, <<-2590000, 51450000>> >>

\* not closed in the file, and with coordinates that round to short strings
RingQuad ==
    << <<-2500004, 51000003>>, <<-2500004, 51299996>>,
       <<-2000001, 51299996>>, <<-2000001, 51000003>> >>

\* a square of side 4e-5 degrees with a vertex every 1e-5 along its sides:
\* 17 coordinates, 305 characters when formatted
RingSquare ==
    LET lon0 == -2590153
        lat0 == 51450112
        at(x, y) == <<lon0 + 10 * x, lat0 + 10 * y>>
    IN  [n \in 1..17 |->
            IF n <= 4 THEN at(n - 1, 0)
            ELSE IF n <= 8 THEN at(4, n - 5)
            ELSE IF n <= 12 THEN at(13 - n, 4)
            ELSE IF n <= 16 THEN at(0, 17 - n)
            ELSE at(0, 0)]

\* a square of side 4e-4 degrees with three more vertices on each side, bowed
\* out by 1e-5 to 5e-5 degrees: 17 coordinates, 303 characters when
\* formatted, no vertex within the first two tolerances of a chord and one
\* within the third
RingBowed ==
    << <<-2591230, 51452340>>, <<-2591130, 51452310>>, <<-2591070, 51452300>>,
       <<-2590990, 51452290>>, <<-2590830, 51452340>>, <<-2590820, 51452440>>,
       <<-2590800, 51452540>>, <<-2590820, 51452640>>, <<-2590830, 51452740>>,
       <<-2590930, 51452750>>, <<-2591030, 51452770>>, <<-2591130, 51452750>>,
       <<-2591230, 51452740>>, <<-2591240, 51452640>>, <<-2591260, 51452540>>,
       <<-2591240, 51452440>>, <<-2591230, 51452340>> >>

\* a trapezium 1e-5 degrees high with a vertex every 1e-5 along its long
\* sides: 17 coordinates, 303 characters when formatted.  Its first nine
\* points lie on one line, a section too early in the splitting to become
\* its chord, so that it is split at its second point
RingTrapezium ==
    LET lon0 == -2590153
        lat0 == 51450112
    IN  [n \in 1..17 |->
            IF n <= 9 THEN <<lon0 + 10 * (n - 1), lat0>>
            ELSE IF n <= 16 THEN <<lon0 + 10 * (17 - n), lat0 + 10>>
            ELSE <<lon0, lat0>>]

SampleRings ==
    <<RingTriangle, RingSquare, RingBowed, RingQuad, RingTrapezium>>

\* get_coords of a ring: of the rings above it is computed once, in
\* SampleCoords, and looked up there
RECURSIVE CoordsFrom(_, _)
SampleCoords ==
    [i \in 1..Len(SampleRings) |-> CoordsFrom(SampleRings[i], {})] \o <<>>

CoordsFrom(coords, known) ==
    IF known = {} THEN get_coords(coords)
    ELSE SampleCoords[CHOOSE i \in known : TRUE]

CoordsOf(coords) ==
    CoordsFrom(coords, {i \in 1..Len(SampleRings) : SampleRings[i] = coords})

--------------------------------------------------------------------------
(* construct_url *)

\* location_coords.get(location_name, ""): the value the dict comprehension
\* left under the key, calls being its get_coords calls in order
DictGet(calls, location_name) ==
    LET hits == {i \in 1..Len(calls) : calls[i][1] = location_name}
    IN  IF hits = {} THEN ""
        ELSE calls[CHOOSE i \in hits : \A h \in hits : h <= i][2]

\* the calls of a sequence of get_coords calls that are made: all of them,
\* or those up to the first that does not return
CallsMade(results) ==
    LET failed == {i \in 1..Len(results) : results[i].outcome # "returned"}
    IN  IF failed = {} THEN Len(results)
        ELSE CHOOSE i \in failed : \A h \in failed : i <= h

\* what construct_url returns for the results of its get_coords calls, the
\* i-th call being for the area called[i], used(calls, k) being the
\* coordinate string put in the k-th URL.  A get_coords call that raises or
\* never returns ends construct_url the same way.
UrlsOf(names, dates, called, results, used(_, _)) ==
    LET made == CallsMade(results)
        calls == [i \in 1..made |-> <<called[i], results[i].value>>]
        params == Product(dates, names)
    IN  IF made > 0 /\ results[made].outcome # "returned"
        THEN [outcome |-> results[made].outcome, urls |-> <<>>, calls |-> calls]
        ELSE [outcome |-> "returned",
              urls |-> [k \in 1..Len(params) |->
                          <<params[k][2],
                            STREETLEVEL_BASE_URL \o "?date=" \o params[k][1]
                                \o "&poly=" \o used(calls, k)>>],
              calls |-> calls]

\* get_coords called again for every (month, area) pair
construct_url_per_item(names, dates, files) ==
    LET params == Product(dates, names)
    IN  Apply(LAMBDA results :
                  UrlsOf(names, dates, [k \in 1..Len(params) |-> params[k][2]],
                         results, LAMBDA calls, k : calls[k][2]),
              [k \in 1..Len(params) |-> CoordsOf(files[params[k][2]])])

\* construct_url: the <<name, url>> pairs, and the get_coords calls made,
\* one per name
construct_url(names, dates, files) ==
    LET params == Product(dates, names)
    IN  Apply(LAMBDA results :
                  UrlsOf(names, dates, names, results,
                         LAMBDA calls, k : DictGet(calls, params[k][2])),
              [i \in 1..Len(names) |-> CoordsOf(files[names[i]])])

--------------------------------------------------------------------------
(* format_data and aggregate_stats.  A report is the one-key dict          *)
(* {lsoa: crimes} the loop of main builds; a crime is a dict of the API.   *)

\* d.get(key)
DictGetOrNone(d, key) == IF key \in DOMAIN d THEN d[key] ELSE None

\* v or {}
OrEmptyDict(v) == IF v = None \/ v = <<>> THEN <<>> ELSE v

\* the "status" entry of a flattened crime
StatusOf(crime) ==
    DictGetOrNone(OrEmptyDict(DictGetOrNone(crime, "outcome_status")), "category")

\* the rows one report contributes to flat_data, cut to the selected columns
FlatReport(report) ==
    LET lsoa == CHOOSE key \in DOMAIN report : TRUE
        crimes == report[lsoa]
    IN  [i \in 1..Len(crimes) |->
            [lsoa |-> lsoa, month |-> crimes[i].month,
             category |-> crimes[i].category, status |-> StatusOf(crimes[i])]]

RECURSIVE FlatData(_)
FlatData(reports) ==
    IF reports = <<>> THEN <<>>
    ELSE FlatReport(Head(reports)) \o FlatData(Tail(reports))

\* format_data: pl.DataFrame(flat_data) has no column when flat_data is
\* empty, and select() of a missing column raises
format_data(reports) ==
    LET flat_data == FlatData(reports)
    IN  IF flat_data = <<>>
        THEN [raised |-> "ColumnNotFoundError", df |-> <<>>]
        ELSE [raised |-> "none", df |-> flat_data]

GroupKey(row) == <<row.lsoa, row.month, row.category>>

\* the group_by left out: every incident row kept, with a count of 1
aggregate_stats_ungrouped(df) ==
    LET one(i) == [lsoa |-> df[i].lsoa, month |-> df[i].month,
                   category |-> df[i].category, count |-> 1]
        rows == {one(i) : i \in DOMAIN df}
    IN  [r \in rows |-> Cardinality({i \in DOMAIN df : one(i) = r})]

\* aggregate_stats: group_by(lsoa, month, category).len(), the rows of the
\* result in no particular order (a bag)
aggregate_stats(df) ==
    LET keys == {GroupKey(df[i]) : i \in DOMAIN df}
    IN  SetToBag({[lsoa |-> key[1], month |-> key[2], category |-> key[3],
                   count |-> Cardinality({i \in DOMAIN df : GroupKey(df[i]) = key})]
                  : key \in keys})

--------------------------------------------------------------------------
(* The remote API, as the model answers for it. *)

AreaName(n) == "E0101448" \o Digit(n)

ErrorStatuses == {403, 429, 500, 503}
\* a GET that fails below HTTP (connection refused, reset, timeout)
NetworkFailure == 0

\* the Retry-After header of a response: none, or its seconds.  Only a
\* response the Retry policy may retry has its header looked at.
NoHeader == -1
RetryAfterHeaders(response) ==
    IF response \in status_forcelist \cup RETRY_AFTER_STATUS_CODES
    THEN {NoHeader, 0, 1} ELSE {NoHeader}

CrimeNoOutcomeKey == [category |-> "burglary", month |-> "2022-01"]
CrimeNullOutcome ==
    [category |-> "burglary", month |-> "2022-01", outcome_status |-> None]
CrimeWithOutcome ==
    [category |-> "robbery", month |-> "2022-02",
     outcome_status |-> [category |-> "under-investigation", date |-> "2022-03"]]
SampleCrimes == {CrimeNoOutcomeKey, CrimeNullOutcome, CrimeWithOutcome}

\* the month a work item asks for: product(dates, location_names) runs
\* through all the areas for one month before the next month
MonthIndex(item) == ((item - 1) \div Len(location_names)) + 1

\* 404 for an archived month, else 200
ApiStatus(item) == IF MonthIndex(item) <= archived THEN 404 ELSE 200

\* the body of a 200: one, two or no crimes of that month
ApiCrimes(item) ==
    LET month == months[MonthIndex(item)]
        at(c) == [c EXCEPT !.month = month]
    IN  CASE MonthIndex(item) % 3 = 1 -> <<at(CrimeNullOutcome)>>
          [] MonthIndex(item) % 3 = 2 ->
                <<at(CrimeWithOutcome), at(CrimeNoOutcomeKey)>>
          [] OTHER -> <<>>

--------------------------------------------------------------------------
(* make_request: the ratelimit decorator, the Retry policy of the adapter  *)
(* and the function's body.                                                *)

\* @limits(calls=15, period=1): the wrapper's bookkeeping before the call.
\* elapsed is clock() - last_reset, in ticks.
limits(elapsed, calls_so_far) ==
    LET reset == Period * TicksPerSecond - elapsed <= 0
        n == (IF reset THEN 0 ELSE calls_so_far) + 1
    IN  [num_calls |-> n,
         since_reset |-> IF reset THEN 0 ELSE elapsed,
         raised |-> IF n > Calls THEN "RateLimitException" ELSE "none"]

\* Retry.is_retry for a GET, total being the retries left: the status is in
\* status_forcelist, or it is one of the Retry-After statuses, the response
\* carries the header and there are retries left
is_retry(status_code, has_retry_after, total) ==
    \/ status_code \in status_forcelist
    \/ /\ total # 0
       /\ has_retry_after
       /\ status_code \in RETRY_AFTER_STATUS_CODES

\* Retry.is_exhausted after the n-th failed GET of one call: total=3 is
\* decremented at every failure and exhausted below zero
is_exhausted(n) == RetryTotal - n < 0

\* Retry.get_backoff_time after n consecutive failures, backoff_factor=1, in
\* seconds: nothing before the first retry, then 2^(n-1)
get_backoff_time(n) == IF n <= 1 THEN 0 ELSE Pow(2, n - 1)

\* response.raise_for_status()
raise_for_status(status_code) ==
    IF status_code >= 400 /\ status_code < 600 THEN "HTTPError" ELSE "none"

\* the 404 case left out
make_request_without_404(status_code, body) ==
    IF status_code # 200
    THEN [raised |-> raise_for_status(status_code), value |-> <<>>]
    ELSE [raised |-> "none", value |-> body]

\* the body of make_request once session.get has returned a response
make_request(status_code, body) ==
    IF status_code = 404 THEN [raised |-> "none", value |-> <<>>]
    ELSE IF status_code # 200 /\ raise_for_status(status_code) # "none"
    THEN [raised |-> raise_for_status(status_code), value |-> <<>>]
    ELSE [raised |-> "none", value |-> body]

--------------------------------------------------------------------------
(* Time. *)

\* the log of GETs d ticks later
Aged(log, d) == [a \in 1..TicksPerSecond |-> IF a > d THEN log[a - d] ELSE 0]

\* the log with one more GET sent now (counted up to Calls + 1)
WithGet(log) == [log EXCEPT ![1] = Min(@ + 1, Calls + 1)]

\* GETs sent within the last second
SentInLastSecond == SumSeq(sent)

NoGets == [a \in 1..TicksPerSecond |-> 0]

--------------------------------------------------------------------------
(* The steps of main(). *)

Running == pc \in {"lsoas", "months", "urls", "loop", "get", "sleep"}

\* time passes while main() runs: the limiter's window, the log of GETs and
\* a sleep under way each age by one tick
Tick ==
    /\ Running
    /\ since_reset' = Min(since_reset + 1, Period * TicksPerSecond)
    /\ sent' = Aged(sent, 1)
    /\ sleep_left' = Max(sleep_left - 1, 0)
    /\ UNCHANGED <<pc, exc, polygons, archived, start_year, end_year, months,
                   location_names, location_urls, coord_calls, idx, data,
                   statuses, num_calls, attempts, last_status, crimes_df,
                   crime_stats_df>>

\* find_lsoas: the names of the files, in the order iterdir() yields them
FindLsoas ==
    /\ pc = "lsoas"
    /\ \E names \in [1..Cardinality(DOMAIN polygons) -> DOMAIN polygons] :
          /\ \A i, j \in DOMAIN names : i # j => names[i] # names[j]
          /\ location_names' = names
    /\ pc' = "months"
    /\ UNCHANGED <<exc, polygons, archived, start_year, end_year, months,
                   location_urls, coord_calls, idx, data, statuses,
                   since_reset, num_calls, sent, sleep_left, attempts,
                   last_status, crimes_df, crime_stats_df>>

GenerateMonths ==
    /\ pc = "months"
    /\ months' = generate_months(start_year, end_year)
    /\ pc' = "urls"
    /\ UNCHANGED <<exc, polygons, archived, start_year, end_year,
                   location_names, location_urls, coord_calls, idx, data,
                   statuses, since_reset, num_calls, sent, sleep_left, attempts,
                   last_status, crimes_df, crime_stats_df>>

ConstructUrl ==
    /\ pc = "urls"
    /\ LET built == construct_url(location_names, months, polygons)
       IN  /\ location_urls' = built.urls
           /\ coord_calls' = built.calls
           /\ pc' = CASE built.outcome = "returned" -> "loop"
                      [] built.outcome = "loops" -> "simplify"
                      [] OTHER -> "raised"
           /\ exc' = IF built.outcome \in {"returned", "loops"}
                     THEN "none" ELSE built.outcome
    /\ UNCHANGED <<polygons, archived, start_year, end_year, months,
                   location_names, idx, data, statuses, since_reset,
                   num_calls, sent, sleep_left, attempts, last_status,
                   crimes_df, crime_stats_df>>

\* the loop of main takes the next work item and calls make_request: the
\* decorator counts the call and lets it through or raises
CallMakeRequest ==
    /\ pc = "loop"
    /\ idx < Len(location_urls)
    /\ LET gate == limits(since_reset, num_calls)
       IN  /\ num_calls' = gate.num_calls
           /\ since_reset' = gate.since_reset
           /\ exc' = gate.raised
           /\ pc' = IF gate.raised = "none" THEN "get" ELSE "raised"
    /\ UNCHANGED <<polygons, archived, start_year, end_year, months,
                   location_names, location_urls, coord_calls, idx, data,
                   statuses, sent, sleep_left, attempts, last_status, crimes_df,
                   crime_stats_df>>

\* session.get sends one GET.  A network failure or a response the Retry
\* policy retries is to be re-sent by the adapter, after a time.sleep of the
\* Retry-After header's seconds if it gives any, else of the backoff if
\* there is one, until the retries are exhausted; any other response goes
\* to the body of make_request, whose result the loop appends to data.
\* attempts and last_status are locals of the call: they are kept only by
\* an exception.
SessionGet ==
    /\ pc = "get"
    /\ sent' = WithGet(sent)
    /\ \E response \in {ApiStatus(idx + 1), NetworkFailure} \cup ErrorStatuses :
       \E retry_after \in RetryAfterHeaders(response) :
          LET n == attempts + 1
              retried ==
                  \/ response = NetworkFailure
                  \/ is_retry(response, retry_after # NoHeader, RetryTotal - attempts)
              seconds == IF retry_after > 0 /\ response # NetworkFailure
                         THEN retry_after ELSE get_backoff_time(n)
              result == make_request(response, ApiCrimes(idx + 1))
          IN  IF retried /\ ~is_exhausted(n)
              THEN /\ attempts' = n
                   /\ sleep_left' = seconds * TicksPerSecond
                   /\ pc' = IF seconds > 0 THEN "sleep" ELSE "get"
                   /\ UNCHANGED <<exc, idx, data, statuses, last_status>>
              ELSE /\ UNCHANGED sleep_left
                   /\ IF retried \/ result.raised # "none"
                      THEN /\ pc' = "raised"
                           /\ exc' = IF response = NetworkFailure
                                     THEN "ConnectionError"
                                     ELSE IF retried THEN "RetryError"
                                     ELSE result.raised
                           /\ attempts' = n
                           /\ last_status' = response
                           /\ UNCHANGED <<idx, data, statuses>>
                      ELSE /\ pc' = "loop"
                           /\ idx' = idx + 1
                           /\ data' = Append(data,
                                 location_urls[idx + 1][1] :> result.value)
                           /\ statuses' = Append(statuses, response)
                           /\ attempts' = 0
                           /\ UNCHANGED <<exc, last_status>>
    /\ UNCHANGED <<polygons, archived, start_year, end_year, months,
                   location_names, location_urls, coord_calls, since_reset,
                   num_calls, crimes_df, crime_stats_df>>

\* the adapter's time.sleep is over: it sends the GET again
SleepOver ==
    /\ pc = "sleep"
    /\ sleep_left = 0
    /\ pc' = "get"
    /\ UNCHANGED <<exc, polygons, archived, start_year, end_year, months,
                   location_names, location_urls, coord_calls, idx, data,
                   statuses, since_reset, num_calls, sent, sleep_left,
                   attempts, last_status, crimes_df, crime_stats_df>>

\* the comprehension is through: the session is closed
LoopDone ==
    /\ pc = "loop"
    /\ idx = Len(location_urls)
    /\ pc' = "collected"
    /\ UNCHANGED <<exc, polygons, archived, start_year, end_year, months,
                   location_names, location_urls, coord_calls, idx, data,
                   statuses, since_reset, num_calls, sent, sleep_left, attempts,
                   last_status, crimes_df, crime_stats_df>>

FormatData ==
    /\ pc = "collected"
    /\ LET formatted == format_data(data)
       IN  /\ crimes_df' = formatted.df
           /\ exc' = formatted.raised
           /\ pc' = IF formatted.raised = "none" THEN "formatted" ELSE "raised"
    /\ UNCHANGED <<polygons, archived, start_year, end_year, months,
                   location_names, location_urls, coord_calls, idx, data,
                   statuses, since_reset, num_calls, sent, sleep_left, attempts,
                   last_status, crime_stats_df>>

AggregateStats ==
    /\ pc = "formatted"
    /\ crime_stats_df' = aggregate_stats(crimes_df)
    /\ pc' = "done"
    /\ UNCHANGED <<exc, polygons, archived, start_year, end_year, months,
                   location_names, location_urls, coord_calls, idx, data,
                   statuses, since_reset, num_calls, sent, sleep_left, attempts,
                   last_status, crimes_df>>

--------------------------------------------------------------------------
(* Specifications. *)

SeqsUpTo(S, n) == UNION {[1..k -> S] : k \in 0..n}

AreaNames == {AreaName(i) : i \in 1..MaxAreas}

\* the ring of the i-th file
SampleRing(i) == SampleRings[((i - 1) % Len(SampleRings)) + 1]

\* the folder holding the first n files
Folder(n) == [name \in {AreaName(i) : i \in 1..n} |->
                 SampleRing(CHOOSE i \in 1..n : AreaName(i) = name)]

Years == FirstYear..(FirstYear + YearSpan)

SampleMonths == {"2022-01", "2023-11"}

NoUrls == location_urls = <<>> /\ coord_calls = <<>>

NotFetched ==
    /\ exc = "none"
    /\ idx = 0
    /\ data = <<>>
    /\ statuses = <<>>
    /\ since_reset = 0
    /\ num_calls = 0
    /\ sent = NoGets
    /\ sleep_left = 0
    /\ attempts = 0
    /\ last_status = 0

NoTables == crimes_df = <<>> /\ crime_stats_df = EmptyBag

\* main(): a folder of up to MaxFiles files, an API that has archived no
\* month of main's range, the limiter created when the module was imported
Init ==
    /\ pc = "lsoas"
    /\ polygons \in {Folder(n) : n \in 0..MaxFiles}
    /\ archived = 0
    /\ start_year = MainStartYear
    /\ end_year = MainEndYear
    /\ months = <<>>
    /\ location_names = <<>>
    /\ NoUrls
    /\ NotFetched
    /\ NoTables

Next ==
    \/ Tick
    \/ FindLsoas
    \/ GenerateMonths
    \/ ConstructUrl
    \/ CallMakeRequest
    \/ SessionGet
    \/ SleepOver
    \/ LoopDone
    \/ FormatData
    \/ AggregateStats

Spec == Init /\ [][Next]_vars

\* generate_months alone, on any two years
InitMonths ==
    /\ pc = "months"
    /\ polygons = <<>>
    /\ archived = 0
    /\ start_year \in Years
    /\ end_year \in Years
    /\ months = <<>>
    /\ location_names = <<>>
    /\ NoUrls
    /\ NotFetched
    /\ NoTables

SpecMonths == InitMonths /\ [][GenerateMonths]_vars

\* construct_url alone, on any distinct names and any months
InitUrl ==
    /\ pc = "urls"
    /\ \E shift \in 0..(Len(SampleRings) - 1) :
          polygons = [name \in AreaNames |->
                         SampleRing(shift + CHOOSE i \in 1..MaxAreas :
                                                AreaName(i) = name)]
    /\ archived = 0
    /\ start_year = MainStartYear
    /\ end_year = MainEndYear
    /\ months \in SeqsUpTo(SampleMonths, MaxDates)
    /\ location_names \in
          {names \in SeqsUpTo(AreaNames, MaxAreas) :
              \A i, j \in DOMAIN names : i # j => names[i] # names[j]}
    /\ NoUrls
    /\ NotFetched
    /\ NoTables

SpecUrl == InitUrl /\ [][ConstructUrl]_vars

\* the collection from construct_url on, over the first areas and the
\* first months of main's range
InitCollect ==
    /\ pc = "urls"
    /\ archived \in 0..MaxArchived
    /\ start_year = MainStartYear
    /\ end_year = MainEndYear
    /\ \E n \in 0..MaxAreas :
          /\ polygons = Folder(n)
          /\ location_names = [i \in 1..n |-> AreaName(i)]
    /\ \E m \in 0..MaxDates :
          months = SubSeq(generate_months(MainStartYear, MainEndYear), 1, m)
    /\ NoUrls
    /\ NotFetched
    /\ NoTables

NextCollect ==
    \/ Tick
    \/ ConstructUrl
    \/ CallMakeRequest
    \/ SessionGet
    \/ SleepOver
    \/ LoopDone
    \/ FormatData
    \/ AggregateStats

SpecCollect == InitCollect /\ [][NextCollect]_vars

\* format_data and aggregate_stats alone: the reports of one or two areas,
\* in the order the loop of main yields them, with any crimes in them
InitTables ==
    /\ pc = "collected"
    /\ polygons = <<>>
    /\ archived = 0
    /\ start_year = MainStartYear
    /\ end_year = MainEndYear
    /\ months = <<>>
    /\ location_names = <<>>
    /\ NoUrls
    /\ exc = "none"
    /\ idx = 0
    /\ \E n \in 1..2, bodies \in SeqsUpTo(SeqsUpTo(SampleCrimes, MaxCrimes), MaxReports) :
          data = [k \in 1..Len(bodies) |->
                     AreaName(((k - 1) % n) + 1) :> bodies[k]]
    /\ statuses = <<>>
    /\ since_reset = 0
    /\ num_calls = 0
    /\ sent = NoGets
    /\ sleep_left = 0
    /\ attempts = 0
    /\ last_status = 0
    /\ NoTables

SpecTables == InitTables /\ [][FormatData \/ AggregateStats]_vars

--------------------------------------------------------------------------
(* The properties. *)

FetchFailures == {"HTTPError", "RetryError", "ConnectionError"}

Collected == pc \in {"collected", "formatted", "done"}

\* the crimes in all the reports
RECURSIVE CrimeCount(_)
CrimeCount(reports) ==
    IF reports = <<>> THEN 0
    ELSE Len(Head(reports)[CHOOSE key \in DOMAIN Head(reports) : TRUE])
            + CrimeCount(Tail(reports))

\* the incident rows the reports call for, in their order
RECURSIVE ExpectedRows(_)
ExpectedRows(reports) ==
    IF reports = <<>> THEN <<>>
    ELSE LET lsoa == CHOOSE key \in DOMAIN Head(reports) : TRUE
             crimes == Head(reports)[lsoa]
             status(c) == IF "outcome_status" \in DOMAIN c
                          THEN IF c.outcome_status = None THEN None
                               ELSE c.outcome_status.category
                          ELSE None
         IN  [i \in 1..Len(crimes) |->
                 [lsoa |-> lsoa, month |-> crimes[i].month,
                  category |-> crimes[i].category, status |-> status(crimes[i])]]
             \o ExpectedRows(Tail(reports))

\* the sum of the counts of the rows of an aggregate table
RECURSIVE CountSum(_, _)
CountSum(table, rows) ==
    IF rows = {} THEN 0
    ELSE LET r == CHOOSE x \in rows : TRUE
         IN  r.count * CopiesIn(r, table) + CountSum(table, rows \ {r})

\* the rows of an aggregate table that carry the triple
RowsOfTriple(table, triple) ==
    LET rows == {r \in BagToSet(table) : GroupKey(r) = triple}
    IN  BagCardinality([r \in rows |-> CopiesIn(r, table)])

\* C1: a work item whose request fails leaves an empty result, the run goes
\* on and every other item gets its outcome: no failure of the fetch path
\* leaves the loop uncaught, and a finished loop has one outcome per item.
C1_FailedItemDoesNotAbort ==
    /\ ~(pc = "raised" /\ exc \in FetchFailures)
    /\ Collected => Len(data) = Len(location_urls)

\* C2: a work item answered 404 yields the empty list, not an error, and
\* adds no row for its (area, month) to the incident table.
C2_NotFoundIsEmptyOutcome ==
    /\ \A i \in 1..Len(statuses) :
          statuses[i] = 404 =>
              /\ data[i] = (location_urls[i][1] :> <<>>)
              /\ FlatReport(data[i]) = <<>>
              /\ pc \in {"formatted", "done"} =>
                    \A r \in 1..Len(crimes_df) :
                        ~(/\ crimes_df[r].lsoa = location_urls[i][1]
                          /\ crimes_df[r].month = months[MonthIndex(i)])
    /\ pc = "raised" /\ exc \in FetchFailures => last_status # 404

\* a run that ended with a table although an item was answered 404
C2_Witness ==
    /\ pc = "done"
    /\ Len(crimes_df) > 0
    /\ \E i \in 1..Len(statuses) : statuses[i] = 404

\* C3: no second holds more than 15 GETs, the adapter's re-sends counted.
C3_RateCeiling == SentInLastSecond <= Calls

\* C4: a 429 or 5xx response is re-sent, at most 3 times for one work item,
\* and a call still answered 429 or 5xx after the last retry fails: a call
\* that failed on such a status has sent 1 + 3 GETs, and no collected item
\* has an error status.
C4_RetriesOn429And5xx ==
    /\ attempts <= RetryTotal + 1
    /\ (/\ pc = "raised"
        /\ exc \in FetchFailures
        /\ (last_status = 429 \/ (last_status >= 500 /\ last_status < 600)))
          => attempts = RetryTotal + 1
    /\ \A i \in 1..Len(statuses) : statuses[i] \in {200, 404}

\* C6: construct_url returns one pair per (month, area), months outermost,
\* each URL made of the base, the month and the coordinate string of the
\* pair's area, and get_coords is called exactly once per area.
C6_OneUrlPerMonthAndArea ==
    pc = "loop" =>
        Apply(LAMBDA coords :
                  LET n == Len(location_names)
                      m == Len(months)
                  IN  /\ Len(location_urls) = n * m
                      /\ \A j \in 1..m, i \in 1..n :
                            location_urls[(j - 1) * n + i] =
                                <<location_names[i],
                                  STREETLEVEL_BASE_URL \o "?date=" \o months[j]
                                      \o "&poly=" \o coords[i]>>
                      /\ Len(coord_calls) = n
                      /\ \A i \in 1..n :
                            coord_calls[i] = <<location_names[i], coords[i]>>,
              [i \in 1..Len(location_names) |->
                  CoordsOf(polygons[location_names[i]]).value])

\* two areas with different rings, two different months
C6_Witness ==
    /\ pc = "loop"
    /\ Len(location_urls) = 4
    /\ months[1] # months[2]
    /\ coord_calls[1][2] # coord_calls[2][2]

\* C7: generate_months returns the twelve "YYYY-MM" strings of every year
\* from start_year through end_year, in order.
C7_MonthsThroughEndYear ==
    pc = "urls" =>
        LET n == Max(end_year - start_year + 1, 0)
        IN  /\ Len(months) = 12 * n
            /\ \A k \in 1..Len(months) :
                  months[k] = FormatMonth(start_year + ((k - 1) \div 12),
                                          ((k - 1) % 12) + 1)
            /\ \A k, l \in 1..Len(months) : k # l => months[k] # months[l]

\* C8: format_data returns a table for every collected structure, the
\* all-empty one included, with one row per incident record, the status
\* null when the record has no outcome and the outcome's category otherwise.
C8_OneRowPerRecord ==
    pc \in {"formatted", "raised"} =>
        /\ exc = "none"
        /\ Len(crimes_df) = CrimeCount(data)
        /\ crimes_df = ExpectedRows(data)

\* C9: aggregate_stats returns exactly one row per (area, month, category)
\* of the incident table, with the number of incident rows of that triple,
\* and the counts add up to the number of incident rows.
C9_OneRowPerTriple ==
    pc = "done" =>
        LET triples == {GroupKey(crimes_df[i]) : i \in DOMAIN crimes_df}
            rows == BagToSet(crime_stats_df)
        IN  /\ \A t \in triples : RowsOfTriple(crime_stats_df, t) = 1
            /\ \A r \in rows :
                  /\ GroupKey(r) \in triples
                  /\ r.count = Cardinality({i \in DOMAIN crimes_df :
                                               GroupKey(crimes_df[i]) = GroupKey(r)})
            /\ CountSum(crime_stats_df, rows) = Len(crimes_df)

\* an aggregate of several triples, one of them counted more than once
C9_Witness ==
    /\ pc = "done"
    /\ Cardinality(BagToSet(crime_stats_df)) >= 2
    /\ \E r \in BagToSet(crime_stats_df) : r.count >= 2

\* C10: a call made when the limiter has no budget left waits and then
\* sends its GET: running out of budget fails no call.
C10_NoBudgetSuspendsCall == ~(pc = "raised" /\ exc = "RateLimitException")

==========================================================================
